---- MODULE Spec2Model ----
(***************************************************************************)
(* Model of lib/bpf.c: the filter program chain (lookup / add / free), the  *)
(* VM lifecycle (create_ubpf_vm, register_functions, load_filter_prog) and  *)
(* the map primitives exposed to sandboxed programs.                        *)
(***************************************************************************)
EXTENDS Integers, Sequences, FiniteSets, TLC

\* ---------------------------------------------------------------- bounds
MaxId == 2
MaxVm == 2
MaxCalls == 2
MaxKey == 2

InstanceIds == 1..MaxId          \* ovs_be16 fp_instance_id values
VmIds == 1..MaxVm                \* struct ubpf_vm * values (distinct VMs)
Results == {0, 1}                \* bpf_result values
Positions == 0..(MaxCalls + 1)   \* int last_fp_pos values
NullPtr == 0                     \* NULL, as a pointer or as "no entry"

VARIABLES
    chain,       \* the pipeline's struct ovs_list *: st is absent (NULL), live or freed
    addLog,      \* history of the filter_prog_chain_add calls made, with their results
    call,        \* the last chain / lifecycle call made
    ret,         \* what that call returned, for the calls returning bool
    retPtr,      \* what that call returned, for the calls returning a pointer
    crashed,     \* the process took an invalid memory access
    vmState,     \* per VM: NONE, FUNCTIONS_BOUND, FAILED or COMPILED
    extFuncs,    \* per VM: call id -> registered host function
    regLog,      \* per VM: the call ids in the order they were registered
    loadOk,      \* per VM: what load_filter_prog last returned to the caller
    mapCall,     \* the last map primitive call
    mapRet,      \* what it returned
    backendLog   \* the backend operations invoked during that call

vars == <<chain, addLog, call, ret, retPtr, crashed, vmState, extFuncs, regLog, loadOk,
          mapCall, mapRet, backendLog>>
chainVars == <<chain, addLog, call, ret, retPtr, crashed>>
lifeVars == <<vmState, extFuncs, regLog, loadOk>>
mapVars == <<mapCall, mapRet, backendLog>>

\* ------------------------------------------------------ filter program chain
AbsentChain == [st |-> "absent", list |-> <<>>]

NoCall == [op |-> "none", ptr |-> "valid", id |-> 0, vm |-> 0, r |-> 0, pos |-> 0]

\* struct filter_prog as filled in by filter_prog_chain_add
filter_prog(id, vm, r) == [fp_instance_id |-> id, vm |-> vm, expected_result |-> r]

\* The LIST_FOR_EACH loop of filter_prog_chain_lookup: k is the entry being
\* visited, i the counter before the visit. Returns the index of the entry
\* returned, or NullPtr.
RECURSIVE lookup_scan_matches(_, _, _, _, _)
lookup_scan_matches(list, k, i, id, pos) ==
    IF k > Len(list) THEN NullPtr
    ELSE IF list[k].fp_instance_id = id
         THEN IF pos # i + 1
              THEN lookup_scan_matches(list, k + 1, i + 1, id, pos)
              ELSE k
         ELSE lookup_scan_matches(list, k + 1, i, id, pos)

RECURSIVE lookup_scan_zero_based(_, _, _, _, _)
lookup_scan_zero_based(list, k, i, id, pos) ==
    IF k > Len(list) THEN NullPtr
    ELSE IF list[k].fp_instance_id = id
         THEN IF pos # i THEN NullPtr ELSE k
         ELSE lookup_scan_zero_based(list, k + 1, i + 1, id, pos)

RECURSIVE lookup_scan_no_id(_, _, _, _, _)
lookup_scan_no_id(list, k, i, id, pos) ==
    IF k > Len(list) THEN NullPtr
    ELSE IF pos = i + 1 THEN k
    ELSE lookup_scan_no_id(list, k + 1, i + 1, id, pos)

RECURSIVE lookup_scan(_, _, _, _, _)
lookup_scan(list, k, i, id, pos) ==
    IF k > Len(list) THEN NullPtr
    ELSE IF id = list[k].fp_instance_id
         THEN IF pos # i + 1 THEN NullPtr ELSE k
         ELSE lookup_scan(list, k + 1, i + 1, id, pos)

filter_prog_chain_lookup(ptr, c, id, pos) ==
    IF ptr = "null" THEN NullPtr
    ELSE IF c.st = "absent" THEN NullPtr
    ELSE lookup_scan(c.list, 1, 0, id, pos)

\* The LIST_FOR_EACH loop of filter_prog_chain_add: found after visiting all entries
RECURSIVE add_scan(_, _, _, _)
add_scan_never(list, k, found, id) == FALSE

add_scan(list, k, found, id) ==
    IF k > Len(list) THEN found
    ELSE add_scan(list, k + 1, found \/ (id = list[k].fp_instance_id), id)

\* The if (!found) block of filter_prog_chain_add
push_if_new_front(list, found, id, vm, r) ==
    IF ~found THEN <<filter_prog(id, vm, r)>> \o list ELSE list

push_if_new(list, found, id, vm, r) ==
    IF ~found THEN Append(list, filter_prog(id, vm, r)) ELSE list

\* filter_prog_chain_add through a valid struct ovs_list **
filter_prog_chain_add(id, vm, r) ==
    LET list == chain.list    \* empty when *filter_prog_chain was NULL and is initialised
        found == add_scan(list, 1, FALSE, id)
    IN /\ chain' = [st |-> "live", list |-> push_if_new(list, found, id, vm, r)]
       /\ ret' = ~found
       /\ retPtr' = NullPtr
       /\ addLog' = Append(addLog, [id |-> id, vm |-> vm, r |-> r, ret |-> ~found])
       /\ call' = [op |-> "add", ptr |-> "valid", id |-> id, vm |-> vm, r |-> r, pos |-> 0]
       /\ UNCHANGED crashed

Add ==
    /\ ~crashed
    /\ chain.st # "freed"
    /\ Len(addLog) < MaxCalls
    /\ \E id \in InstanceIds, vm \in VmIds, r \in Results :
          filter_prog_chain_add(id, vm, r)
    /\ UNCHANGED <<lifeVars, mapVars>>

\* filter_prog_chain_add(NULL, ...): line 96 reads *filter_prog_chain with no
\* check of filter_prog_chain, an invalid access made before any argument is
\* used. The build either traps or carries on having read some value; nothing
\* is written through NULL.
AddNullPtr ==
    /\ ~crashed
    /\ \E trap \in BOOLEAN, b \in BOOLEAN :
          /\ crashed' = trap
          /\ ret' = IF trap THEN FALSE ELSE b
    /\ retPtr' = NullPtr
    /\ call' = [op |-> "add", ptr |-> "null", id |-> 0, vm |-> 0, r |-> 0, pos |-> 0]
    /\ UNCHANGED <<chain, addLog, lifeVars, mapVars>>

\* filter_prog_chain_lookup through a valid struct ovs_list **
Lookup ==
    /\ ~crashed
    /\ chain.st # "freed"
    /\ \E id \in InstanceIds, pos \in Positions :
          /\ retPtr' = filter_prog_chain_lookup("valid", chain, id, pos)
          /\ call' = [op |-> "lookup", ptr |-> "valid", id |-> id, vm |-> 0, r |-> 0,
                      pos |-> pos]
    /\ ret' = FALSE
    /\ UNCHANGED <<chain, addLog, crashed, lifeVars, mapVars>>

\* filter_prog_chain_lookup(NULL, ...): returns at line 74 before any argument is used
LookupNullPtr ==
    /\ ~crashed
    /\ retPtr' = filter_prog_chain_lookup("null", chain, 0, 0)
    /\ ret' = FALSE
    /\ call' = [op |-> "lookup", ptr |-> "null", id |-> 0, vm |-> 0, r |-> 0, pos |-> 0]
    /\ UNCHANGED <<chain, addLog, crashed, lifeVars, mapVars>>

\* filter_prog_chain_free: pops and frees every entry, then the list head
filter_prog_chain_free(c) ==
    IF c.st # "absent" THEN [st |-> "freed", list |-> <<>>] ELSE c

Free ==
    /\ ~crashed
    /\ chain.st # "freed"
    /\ chain' = filter_prog_chain_free(chain)
    /\ call' = [op |-> "free", ptr |-> "valid", id |-> 0, vm |-> 0, r |-> 0, pos |-> 0]
    /\ ret' = FALSE
    /\ retPtr' = NullPtr
    /\ UNCHANGED <<addLog, crashed, lifeVars, mapVars>>

\* ------------------------------------------------------------- VM lifecycle
\* The ubpf_register_function calls of register_functions, in program order
RegistrationCallsSwapped ==
    << [idx |-> 1, name |-> "ubpf_map_lookup"],
       [idx |-> 2, name |-> "ubpf_map_update"],
       [idx |-> 3, name |-> "ubpf_map_add"],
       [idx |-> 4, name |-> "ubpf_map_delete"],
       [idx |-> 5, name |-> "ubpf_time_get_ns"],
       [idx |-> 6, name |-> "ubpf_hash"],
       [idx |-> 7, name |-> "ubpf_printf"] >>

RegistrationCalls ==
    << [idx |-> 1, name |-> "ubpf_map_lookup"],
       [idx |-> 2, name |-> "ubpf_map_update"],
       [idx |-> 3, name |-> "ubpf_map_delete"],
       [idx |-> 4, name |-> "ubpf_map_add"],
       [idx |-> 5, name |-> "ubpf_time_get_ns"],
       [idx |-> 6, name |-> "ubpf_hash"],
       [idx |-> 7, name |-> "ubpf_printf"] >>

\* ubpf_register_function(vm, idx, name, proto): binds idx to the function
ubpf_register_function(b, idx, name) ==
    [funcs |-> [i \in (DOMAIN b.funcs) \cup {idx} |-> IF i = idx THEN name ELSE b.funcs[i]],
     log |-> Append(b.log, idx)]

RECURSIVE register_from(_, _)
register_from(b, k) ==
    IF k > Len(RegistrationCalls) THEN b
    ELSE register_from(
            ubpf_register_function(b, RegistrationCalls[k].idx, RegistrationCalls[k].name),
            k + 1)

register_functions(b) == register_from(b, 1)

\* create_ubpf_vm: ubpf_create either fails (NULL) or yields a fresh VM, which
\* then has the host functions registered
create_ubpf_vm(v, created) ==
    IF ~created
    THEN /\ retPtr' = NullPtr
         /\ UNCHANGED lifeVars
    ELSE LET b == register_functions([funcs |-> extFuncs[v], log |-> regLog[v]])
         IN /\ extFuncs' = [extFuncs EXCEPT ![v] = b.funcs]
            /\ regLog' = [regLog EXCEPT ![v] = b.log]
            /\ vmState' = [vmState EXCEPT ![v] = "FUNCTIONS_BOUND"]
            /\ UNCHANGED loadOk
            /\ retPtr' = v

Create ==
    /\ ~crashed
    /\ \E v \in VmIds, created \in BOOLEAN :
          /\ vmState[v] = "NONE"
          /\ create_ubpf_vm(v, created)
          /\ ret' = FALSE
          /\ call' = [op |-> "create", ptr |-> "valid", id |-> 0, vm |-> v, r |-> 0, pos |-> 0]
    /\ UNCHANGED <<chain, addLog, crashed, mapVars>>

\* Program images: one the loader rejects, one the verifier / compiler
\* rejects, one that compiles
Images == {"malformed", "unsafe", "valid"}

\* rv of ubpf_load_elf and fn of ubpf_compile for an image
ubpf_load_elf(image) == IF image = "malformed" THEN -1 ELSE 0

ubpf_compile(image) == IF image = "valid" THEN 1 ELSE NullPtr

\* the state the VM is left in by the load and compile steps
vm_after_load(image) ==
    IF ubpf_load_elf(image) < 0 THEN "FAILED"
    ELSE IF ubpf_compile(image) = NullPtr THEN "FAILED"
    ELSE "COMPILED"

\* what load_filter_prog returns
load_filter_prog_unchecked_compile(image) ==
    IF ubpf_load_elf(image) < 0 THEN FALSE
    ELSE TRUE

load_filter_prog(image) ==
    IF ubpf_load_elf(image) < 0 THEN FALSE
    ELSE IF ubpf_compile(image) = NullPtr THEN FALSE
    ELSE TRUE

\* The caller loads an image into a VM once, after the functions are bound
CallerMayLoad(v) == vmState[v] = "FUNCTIONS_BOUND"

Load ==
    /\ ~crashed
    /\ \E v \in VmIds, image \in Images :
          /\ CallerMayLoad(v)
          /\ vmState' = [vmState EXCEPT ![v] = vm_after_load(image)]
          /\ loadOk' = [loadOk EXCEPT ![v] = load_filter_prog(image)]
          /\ ret' = load_filter_prog(image)
          /\ retPtr' = NullPtr
          /\ call' = [op |-> "load", ptr |-> "valid", id |-> 0, vm |-> v, r |-> 0, pos |-> 0]
    /\ UNCHANGED <<chain, addLog, crashed, extFuncs, regLog, mapVars>>

\* The caller wraps a VM into a filter program only after load_filter_prog
\* returned true for it
CallerMayAdd(v) == loadOk[v]

AddLoaded ==
    /\ ~crashed
    /\ chain.st # "freed"
    /\ Len(addLog) < MaxCalls
    /\ \E id \in InstanceIds, vm \in VmIds, r \in Results :
          /\ CallerMayAdd(vm)
          /\ filter_prog_chain_add(id, vm, r)
    /\ UNCHANGED <<lifeVars, mapVars>>

\* ----------------------------------------------------------- map primitives
OpNames == {"map_lookup", "map_update", "map_add", "map_delete"}

\* const struct ubpf_map *: absent (NULL), or a map whose ops table has the
\* operations of ops set
MapArgs ==
    {[present |-> FALSE, ops |-> {}]} \cup {[present |-> TRUE, ops |-> o] : o \in SUBSET OpNames}

Pointers == 0..MaxKey            \* key / item / value pointers, NullPtr included
BackendStatus == {-3, -1, 0, 1}  \* what a backend's update / add / delete may return

NoBackendCall == <<>>

BackendCall(op, map, key, item, result) ==
    <<[op |-> op, map |-> map, key |-> key, item |-> item, result |-> result]>>

\* Each primitive yields its return value and the backend calls it made;
\* result is what the backend would return if called.
ubpf_map_lookup_no_key_check(map, key, result) ==
    IF ~map.present THEN [ret |-> NullPtr, calls |-> NoBackendCall]
    ELSE IF "map_lookup" \notin map.ops THEN [ret |-> NullPtr, calls |-> NoBackendCall]
    ELSE [ret |-> result, calls |-> BackendCall("map_lookup", map, key, 0, result)]

ubpf_map_lookup(map, key, result) ==
    IF ~map.present THEN [ret |-> NullPtr, calls |-> NoBackendCall]
    ELSE IF "map_lookup" \notin map.ops THEN [ret |-> NullPtr, calls |-> NoBackendCall]
    ELSE IF key = NullPtr THEN [ret |-> NullPtr, calls |-> NoBackendCall]
    ELSE [ret |-> result, calls |-> BackendCall("map_lookup", map, key, 0, result)]

ubpf_map_update_key_first(map, key, item, result) ==
    IF ~map.present THEN [ret |-> -1, calls |-> NoBackendCall]
    ELSE IF key = NullPtr THEN [ret |-> -3, calls |-> NoBackendCall]
    ELSE IF "map_update" \notin map.ops THEN [ret |-> -2, calls |-> NoBackendCall]
    ELSE IF item = NullPtr THEN [ret |-> -4, calls |-> NoBackendCall]
    ELSE [ret |-> result, calls |-> BackendCall("map_update", map, key, item, result)]

ubpf_map_update(map, key, item, result) ==
    IF ~map.present THEN [ret |-> -1, calls |-> NoBackendCall]
    ELSE IF "map_update" \notin map.ops THEN [ret |-> -2, calls |-> NoBackendCall]
    ELSE IF key = NullPtr THEN [ret |-> -3, calls |-> NoBackendCall]
    ELSE IF item = NullPtr THEN [ret |-> -4, calls |-> NoBackendCall]
    ELSE [ret |-> result, calls |-> BackendCall("map_update", map, key, item, result)]

ubpf_map_add(map, item, result) ==
    IF ~map.present THEN [ret |-> -1, calls |-> NoBackendCall]
    ELSE IF "map_add" \notin map.ops THEN [ret |-> -2, calls |-> NoBackendCall]
    ELSE IF item = NullPtr THEN [ret |-> -3, calls |-> NoBackendCall]
    ELSE [ret |-> result, calls |-> BackendCall("map_add", map, 0, item, result)]

ubpf_map_delete(map, key, result) ==
    IF ~map.present THEN [ret |-> -1, calls |-> NoBackendCall]
    ELSE IF "map_delete" \notin map.ops THEN [ret |-> -2, calls |-> NoBackendCall]
    ELSE IF key = NullPtr THEN [ret |-> -3, calls |-> NoBackendCall]
    ELSE [ret |-> result, calls |-> BackendCall("map_delete", map, key, 0, result)]

\* the record of a map primitive call
MapCallRecord(op, map, key, item) == [op |-> op, map |-> map, key |-> key, item |-> item]

MapLookup ==
    /\ \E map \in MapArgs, key \in Pointers, result \in Pointers :
          /\ mapCall' = MapCallRecord("map_lookup", map, key, 0)
          /\ mapRet' = ubpf_map_lookup(map, key, result).ret
          /\ backendLog' = ubpf_map_lookup(map, key, result).calls
    /\ UNCHANGED <<chainVars, lifeVars>>

MapUpdate ==
    /\ \E map \in MapArgs, key \in Pointers, item \in Pointers, result \in BackendStatus :
          /\ mapCall' = MapCallRecord("map_update", map, key, item)
          /\ mapRet' = ubpf_map_update(map, key, item, result).ret
          /\ backendLog' = ubpf_map_update(map, key, item, result).calls
    /\ UNCHANGED <<chainVars, lifeVars>>

MapAdd ==
    /\ \E map \in MapArgs, item \in Pointers, result \in BackendStatus :
          /\ mapCall' = MapCallRecord("map_add", map, 0, item)
          /\ mapRet' = ubpf_map_add(map, item, result).ret
          /\ backendLog' = ubpf_map_add(map, item, result).calls
    /\ UNCHANGED <<chainVars, lifeVars>>

MapDelete ==
    /\ \E map \in MapArgs, key \in Pointers, result \in BackendStatus :
          /\ mapCall' = MapCallRecord("map_delete", map, key, 0)
          /\ mapRet' = ubpf_map_delete(map, key, result).ret
          /\ backendLog' = ubpf_map_delete(map, key, result).calls
    /\ UNCHANGED <<chainVars, lifeVars>>

\* ------------------------------------------------- chain: helper operators
\* index of the entry of list holding instance id, NullPtr when there is none
IndexOf(list, id) ==
    IF \E k \in 1..Len(list) : list[k].fp_instance_id = id
    THEN CHOOSE k \in 1..Len(list) :
            /\ list[k].fp_instance_id = id
            /\ \A j \in 1..(k - 1) : list[j].fp_instance_id # id
    ELSE NullPtr

\* the entry at which the running count of entries matching id equals pos
OrdinalMatch(list, id, pos) ==
    LET hits == {k \in 1..Len(list) :
                    /\ list[k].fp_instance_id = id
                    /\ Cardinality({j \in 1..k : list[j].fp_instance_id = id}) = pos}
    IN IF hits = {} THEN NullPtr ELSE CHOOSE k \in hits : TRUE

\* the calls of the log that were the first for their instance id
FirstIdx(log) == {k \in 1..Len(log) : \A j \in 1..(k - 1) : log[j].id # log[k].id}

NthFirst(log, n) ==
    CHOOSE k \in FirstIdx(log) : Cardinality({j \in FirstIdx(log) : j <= k}) = n

AddStep == Len(addLog') = Len(addLog) + 1

DupAddStep ==
    /\ AddStep
    /\ \E k \in 1..Len(addLog) : addLog[k].id = addLog'[Len(addLog')].id

LookupCall == call.op = "lookup"

\* ------------------------------------------------------------- chain claims

C2_OrdinalAmongMatches ==
    (LookupCall /\ call.ptr = "valid" /\ chain.st = "live")
        => retPtr = OrdinalMatch(chain.list, call.id, call.pos)

\* C2 (amended): lookup counts every entry it scans; the entry of id is
\* returned exactly when its 1-based position in the whole chain equals the
\* ordinal, so lookup(C, i, 1) returns the entry of i only when it is the
\* first entry of the chain and not-found when another entry precedes it.
C2_PositionInChain ==
    (LookupCall /\ call.ptr = "valid" /\ IndexOf(chain.list, call.id) # NullPtr)
        => /\ call.pos = IndexOf(chain.list, call.id) => retPtr = IndexOf(chain.list, call.id)
           /\ call.pos # IndexOf(chain.list, call.id) => retPtr = NullPtr
           /\ (call.pos = 1 /\ chain.list[1].fp_instance_id # call.id) => retPtr = NullPtr
           /\ (call.pos = 1 /\ chain.list[1].fp_instance_id = call.id) => retPtr = 1

C2_Witness ==
    /\ LookupCall /\ call.ptr = "valid" /\ call.pos = 1
    /\ Len(chain.list) = 2
    /\ chain.list[2].fp_instance_id = call.id
    /\ retPtr = NullPtr

\* C3 (as stated): on a chain built by add calls, lookup with an ordinal above
\* 1 always returns not-found.
C3_OrdinalAboveOneNotFound ==
    (LookupCall /\ call.pos > 1) => retPtr = NullPtr

\* C3 (amended): on a chain built by add calls, lookup with an ordinal n above
\* 1 returns not-found unless the entry of the id is the n-th entry of the
\* chain, in which case it returns that entry; it is not-found for every n
\* above the chain's length.
C3_AboveOneOnlyAtPosition ==
    (LookupCall /\ call.pos > 1)
        => IF /\ call.ptr = "valid"
              /\ call.pos <= Len(chain.list)
              /\ chain.list[call.pos].fp_instance_id = call.id
           THEN retPtr = call.pos
           ELSE retPtr = NullPtr

C3_Witness ==
    /\ LookupCall /\ call.pos = 2 /\ call.ptr = "valid"
    /\ Len(chain.list) = 2
    /\ chain.list[2].fp_instance_id = call.id
    /\ retPtr = 2

\* C7 (as stated): chain operations on an absent chain never fail: free on an
\* absent chain does nothing, lookup through an absent pointer or on an absent
\* chain returns not-found and changes nothing, add through an absent pointer
\* does not fail, and add on an absent chain creates it and inserts the entry.
C7_AbsentChainOpsDefined ==
    [][/\ (call'.op = "free" /\ call' # call /\ chain.st = "absent") => chain' = chain
       /\ (call'.op = "lookup" /\ (call'.ptr = "null" \/ chain.st = "absent"))
             => (retPtr' = NullPtr /\ chain' = chain /\ ~crashed')
       /\ (call'.op = "add" /\ call'.ptr = "null") => (~crashed' /\ chain' = chain)
       /\ (AddStep /\ chain.st = "absent")
             => /\ chain' = [st |-> "live",
                             list |-> <<filter_prog(call'.id, call'.vm, call'.r)>>]
                /\ ret' = TRUE]_vars

\* C9: after any sequence of add calls the chain holds exactly the distinct
\* ids requested, in the order of each id's first add, each entry with the vm
\* and expected result of that first add; no two entries share an id; and add
\* returned true exactly for the first call of each id.
C9_ChainIsFirstAddsInOrder ==
    chain.st # "freed"
        => /\ Len(chain.list) = Cardinality(FirstIdx(addLog))
           /\ \A n \in 1..Len(chain.list) :
                 LET a == addLog[NthFirst(addLog, n)]
                 IN chain.list[n] = filter_prog(a.id, a.vm, a.r)
           /\ \A m, n \in 1..Len(chain.list) :
                 chain.list[m].fp_instance_id = chain.list[n].fp_instance_id => m = n
           /\ \A k \in 1..Len(addLog) : addLog[k].ret = (k \in FirstIdx(addLog))

C9_Witness ==
    /\ Len(addLog) = 2
    /\ Len(chain.list) = 2
    /\ chain.list[1].fp_instance_id > chain.list[2].fp_instance_id
    /\ chain.list[1].vm # chain.list[2].vm

\* C10: lookup increments its counter for every entry scanned and stops at the
\* first entry whose id matches: that entry is returned if and only if its
\* position in the whole chain equals pos, NULL is returned otherwise, also
\* when nothing matches; an entry of another id is never returned and the
\* chain is never modified.
C10_LookupStopsAtFirstMatch ==
    [][(call'.op = "lookup" /\ call' # call) =>
        LET k == IF call'.ptr = "valid" THEN IndexOf(chain.list, call'.id) ELSE NullPtr
        IN /\ retPtr' = (IF k # NullPtr /\ k = call'.pos THEN k ELSE NullPtr)
           /\ retPtr' # NullPtr => chain.list[retPtr'].fp_instance_id = call'.id
           /\ chain' = chain
           /\ addLog' = addLog]_vars

C10_Witness ==
    /\ LookupCall /\ call.ptr = "valid"
    /\ Len(chain.list) = 2
    /\ retPtr = 2
    /\ chain.list[2].fp_instance_id = call.id
    /\ call.pos = 2

\* --------------------------------------------------------- lifecycle claims
Bound(v) == vmState[v] # "NONE"

Ascending(log) == \A m, n \in 1..Len(log) : m < n => log[m] < log[n]

\* C4 (as stated): once the host functions are bound, 1 is map lookup, 2 map
\* update, 3 map add, 4 map delete, 5 timestamp, 6 hash, 7 diagnostic print,
\* each id bound once, registered in ascending id order.
C4_IdsAsEnumerated ==
    \A v \in VmIds :
        Bound(v) =>
            /\ extFuncs[v] = <<"ubpf_map_lookup", "ubpf_map_update", "ubpf_map_add",
                               "ubpf_map_delete", "ubpf_time_get_ns", "ubpf_hash",
                               "ubpf_printf">>
            /\ Ascending(regLog[v])

\* C4 (amended): once the host functions are bound, 1 is map lookup, 2 map
\* update, 3 map delete, 4 map add, 5 timestamp, 6 hash, 7 diagnostic print,
\* each id bound once, registered in ascending id order.
C4_IdsAsRegistered ==
    \A v \in VmIds :
        Bound(v) =>
            /\ extFuncs[v] = <<"ubpf_map_lookup", "ubpf_map_update", "ubpf_map_delete",
                               "ubpf_map_add", "ubpf_time_get_ns", "ubpf_hash",
                               "ubpf_printf">>
            /\ Len(regLog[v]) = Len(extFuncs[v])
            /\ Ascending(regLog[v])

C4_Witness ==
    \E v \in VmIds : Bound(v) /\ regLog[v] # <<>> /\ call.op = "create" /\ retPtr = v

FirstCause(c) ==
    IF ~c.map.present THEN -1
    ELSE IF c.op \notin c.map.ops THEN -2
    ELSE IF (IF c.op = "map_add" THEN c.item ELSE c.key) = NullPtr THEN -3
    ELSE IF c.op = "map_update" /\ c.item = NullPtr THEN -4
    ELSE 0

\* C5: map update, add and delete return -1 for an absent map, else -2 for an
\* unset operation, else -3 for a null first pointer, else (update only) -4
\* for a null item, without invoking the backend; otherwise the backend
\* operation is invoked exactly once and its status is returned verbatim.
C5_FailureCodesInPriorityOrder ==
    mapCall.op \in {"map_update", "map_add", "map_delete"} =>
        IF FirstCause(mapCall) # 0
        THEN mapRet = FirstCause(mapCall) /\ backendLog = <<>>
        ELSE /\ Len(backendLog) = 1
             /\ backendLog[1].op = mapCall.op
             /\ backendLog[1].map = mapCall.map
             /\ backendLog[1].key = mapCall.key
             /\ backendLog[1].item = mapCall.item
             /\ mapRet = backendLog[1].result

C5_Witness ==
    /\ mapCall.op = "map_update"
    /\ mapCall.map.present /\ "map_update" \notin mapCall.map.ops
    /\ mapCall.key = NullPtr /\ mapCall.item = NullPtr
    /\ mapRet = -2

\* C6: map lookup returns null without invoking the backend when the map is
\* absent, its lookup operation is unset or the key is null; otherwise it
\* invokes the backend's lookup exactly once with the given map and key and
\* returns the backend's result unchanged.
C6_LookupNullOrDelegates ==
    mapCall.op = "map_lookup" =>
        IF ~mapCall.map.present \/ "map_lookup" \notin mapCall.map.ops \/ mapCall.key = NullPtr
        THEN mapRet = NullPtr /\ backendLog = <<>>
        ELSE /\ Len(backendLog) = 1
             /\ backendLog[1].op = "map_lookup"
             /\ backendLog[1].map = mapCall.map
             /\ backendLog[1].key = mapCall.key
             /\ mapRet = backendLog[1].result

C6_Witness ==
    /\ mapCall.op = "map_lookup"
    /\ mapCall.map.present /\ "map_lookup" \in mapCall.map.ops
    /\ mapCall.key # NullPtr
    /\ Len(backendLog) = 1
    /\ mapRet # NullPtr

Init ==
    /\ chain = AbsentChain
    /\ addLog = <<>>
    /\ call = NoCall
    /\ ret = FALSE
    /\ retPtr = NullPtr
    /\ crashed = FALSE
    /\ vmState = [v \in VmIds |-> "NONE"]
    /\ extFuncs = [v \in VmIds |-> <<>>]
    /\ regLog = [v \in VmIds |-> <<>>]
    /\ loadOk = [v \in VmIds |-> FALSE]
    /\ mapCall = MapCallRecord("none", [present |-> FALSE, ops |-> {}], 0, 0)
    /\ mapRet = 0
    /\ backendLog = <<>>

Next == Add \/ AddNullPtr \/ Lookup \/ LookupNullPtr \/ Free

Spec == Init /\ [][Next]_vars

NextLife == Create \/ Load \/ AddLoaded

SpecLife == Init /\ [][NextLife]_vars

NextMap == MapLookup \/ MapUpdate \/ MapAdd \/ MapDelete

SpecMap == Init /\ [][NextMap]_vars
====
